---- MODULE Spec2Model ----
(***************************************************************************)
(* A model of the vector utilities of pyxem (pyxem/utils/vector_utils.py)  *)
(* and of the marker tools of pixstem (pixstem/marker_tools.py).           *)
(*                                                                         *)
(* Every function of the source is an operator that computes what the      *)
(* code computes; a call is an action that draws the arguments from small  *)
(* sets, stores them in `args', writes the returned value to `ret' and     *)
(* applies the call's writes to the caller's array `z'.                    *)
(*                                                                         *)
(* Numbers.  Coordinates are integers (floats that hold integers exactly). *)
(* A Euclidean norm is kept as its square, so that every comparison the    *)
(* code makes between a norm and a bound is decided exactly.               *)
(***************************************************************************)
EXTENDS Integers, Sequences, FiniteSets, TLC

VARIABLES
    pc,     \* "idle" before the call, then the name of the function that returned
    z,      \* the caller's array of vectors, passed by reference to the filters
    args,   \* the arguments of the call (with `z0', the contents of z at the call)
    ret     \* the value the call returned

vars == <<pc, z, args, ret>>

----------------------------------------------------------------------------
(* Bounds of the model *)

\* longest vector list handed to a filter
MaxLen == 3
\* largest magnitude / edge threshold tried
MaxThr == 2

\* coordinates of the vectors handed to the filters
Coord == {-2, 0, 1}
Vec2 == Coord \X Coord

\* all sequences over S of length at most n
RECURSIVE SeqsUpTo(_, _)
SeqsUpTo(S, n) ==
    IF n = 0 THEN {<<>>}
    ELSE LET shorter == SeqsUpTo(S, n - 1)
         IN  shorter \cup {Append(s, v) : s \in {t \in shorter : Len(t) = n - 1}, v \in S}

Abs(x) == IF x < 0 THEN -x ELSE x

NoArgs == [fn |-> "none"]

----------------------------------------------------------------------------
(* Magnitudes: a finite float, or np.inf *)

Finite(v) == [inf |-> FALSE, val |-> v]
Infinity == [inf |-> TRUE, val |-> 0]

\* np.linalg.norm(i), squared
Norm2(v) == v[1] * v[1] + v[2] * v[2]

\* norm < m, for a norm given by its square n2 >= 0
NormLt(n2, m) == IF m.inf THEN TRUE ELSE m.val > 0 /\ n2 < m.val * m.val

\* norm > m, for a norm given by its square n2 >= 0
NormGtMutant(n2, m) == IF m.inf THEN FALSE ELSE m.val < 0 \/ n2 >= m.val * m.val
NormGt(n2, m) == IF m.inf THEN FALSE ELSE m.val < 0 \/ n2 > m.val * m.val

\* np.where(mask)[0]: the indices where mask holds, ascending
RECURSIVE WhereUpTo(_, _)
WhereUpTo(mask, n) ==
    IF n = 0 THEN <<>>
    ELSE IF mask[n] THEN Append(WhereUpTo(mask, n - 1), n) ELSE WhereUpTo(mask, n - 1)

Where(mask) == WhereUpTo(mask, Len(mask))

\* a[idx] for an index array idx: a new array holding the selected rows
TakeRows(a, idx) == [k \in 1..Len(idx) |-> a[idx[k]]]

----------------------------------------------------------------------------
(* filter_vectors_ragged *)

filter_vectors_ragged(zz, min_magnitude, max_magnitude) ==
    LET norms  == [i \in 1..Len(zz) |-> Norm2(zz[i])]
        \* norms[norms < min_magnitude] = 0
        norms1 == [i \in 1..Len(zz) |->
                      IF NormLt(norms[i], min_magnitude) THEN 0 ELSE norms[i]]
        \* norms[norms > max_magnitude] = 0
        norms2 == [i \in 1..Len(zz) |->
                      IF NormGt(norms1[i], max_magnitude) THEN 0 ELSE norms1[i]]
        \* z[np.where(norms)]
    IN  TakeRows(zz, Where([i \in 1..Len(zz) |-> norms2[i] # 0]))

----------------------------------------------------------------------------
(* filter_vectors_edge_ragged: the two assignments write into the caller's z *)

\* z[mask] = 0
ZeroRows(zz, mask) == [i \in 1..Len(zz) |-> IF mask[i] THEN <<0, 0>> ELSE zz[i]]

\* the contents of z when filter_vectors_edge_ragged returns
edge_z_written_mutant(zz, x_threshold, y_threshold) ==
    ZeroRows(zz, [i \in 1..Len(zz) |-> Abs(zz[i][1]) > x_threshold])
edge_z_written(zz, x_threshold, y_threshold) ==
    LET z1 == ZeroRows(zz, [i \in 1..Len(zz) |-> Abs(zz[i][1]) > x_threshold])
    IN  ZeroRows(z1, [i \in 1..Len(z1) |-> Abs(z1[i][2]) > y_threshold])

\* filtered_vectors = z[np.where(z.T[0])]
filter_vectors_edge_ragged(zz, x_threshold, y_threshold) ==
    LET z2 == edge_z_written(zz, x_threshold, y_threshold)
    IN  TakeRows(z2, Where([i \in 1..Len(z2) |-> z2[i][1] # 0]))

----------------------------------------------------------------------------
(* The filters called on one position's vector list *)

Thresholds == -1..MaxThr
MinMagnitudes == {Finite(v) : v \in Thresholds}
MaxMagnitudes == {Finite(v) : v \in Thresholds} \cup {Infinity}

InitFilter ==
    /\ pc = "idle"
    /\ z \in SeqsUpTo(Vec2, MaxLen)
    /\ args = NoArgs
    /\ ret = <<>>

CallFilterMagnitude ==
    /\ pc = "idle"
    /\ \E mn \in MinMagnitudes, mx \in MaxMagnitudes :
          /\ args' = [fn |-> "filter_vectors_ragged", z0 |-> z,
                      min_magnitude |-> mn, max_magnitude |-> mx]
          /\ ret' = filter_vectors_ragged(z, mn, mx)
    /\ z' = z
    /\ pc' = "filter_vectors_ragged"

CallFilterEdge ==
    /\ pc = "idle"
    /\ \E xt \in Thresholds, yt \in Thresholds :
          /\ args' = [fn |-> "filter_vectors_edge_ragged", z0 |-> z,
                      x_threshold |-> xt, y_threshold |-> yt]
          /\ ret' = filter_vectors_edge_ragged(z, xt, yt)
          /\ z' = edge_z_written(z, xt, yt)
    /\ pc' = "filter_vectors_edge_ragged"

NextFilter == CallFilterMagnitude \/ CallFilterEdge

SpecFilter == InitFilter /\ [][NextFilter]_vars

----------------------------------------------------------------------------
(* Claims about the filters *)

\* the band of claim C1, stated on the squared norm n2 of a row:
\* min_magnitude <= norm <= max_magnitude and norm # 0
InBand(n2, mn, mx) ==
    /\ n2 # 0
    /\ mn.val <= 0 \/ n2 >= mn.val * mn.val
    /\ mx.inf \/ (mx.val >= 0 /\ n2 <= mx.val * mx.val)

RowsInBand(rows, mn, mx) ==
    LET Keep(v) == InBand(Norm2(v), mn, mx)
    IN  SelectSeq(rows, Keep)

\* C1: filter_vectors_ragged returns, in their original order, exactly the rows
\* whose norm n satisfies min_magnitude <= n <= max_magnitude (both inclusive)
\* and n # 0; with min_magnitude = 0 and max_magnitude = inf these are exactly
\* the rows of nonzero norm; a row of zero norm is never returned.
C1_MagnitudeFilter ==
    pc = "filter_vectors_ragged" =>
        /\ ret = RowsInBand(args.z0, args.min_magnitude, args.max_magnitude)
        /\ (args.min_magnitude = Finite(0) /\ args.max_magnitude = Infinity) =>
               LET NonZero(v) == v # <<0, 0>>
               IN  ret = SelectSeq(args.z0, NonZero)
        /\ \A k \in 1..Len(ret) : Norm2(ret[k]) # 0

\* a call that drops a row of zero norm and a row above the band and keeps a
\* row whose norm is exactly max_magnitude
C1_Witness ==
    /\ pc = "filter_vectors_ragged"
    /\ ~args.max_magnitude.inf
    /\ args.max_magnitude.val > 0
    /\ \E i \in 1..Len(args.z0) : args.z0[i] = <<0, 0>>
    /\ \E i \in 1..Len(args.z0) :
          Norm2(args.z0[i]) > args.max_magnitude.val * args.max_magnitude.val
    /\ \E k \in 1..Len(ret) :
          Norm2(ret[k]) = args.max_magnitude.val * args.max_magnitude.val

\* the rows claim C2 says the edge filter keeps
RowsInsideEdge(rows, xt, yt) ==
    LET Keep(v) == ~(Abs(v[1]) > xt \/ Abs(v[2]) > yt \/ v = <<0, 0>>)
    IN  SelectSeq(rows, Keep)

\* C2: filter_vectors_edge_ragged drops a vector if and only if |x| > x_threshold
\* or |y| > y_threshold or the vector is the origin; every other vector (one with
\* x = 0 and a nonzero in-range y included) is retained, in the original order.
C2_EdgeFilterClaim ==
    pc = "filter_vectors_edge_ragged" =>
        ret = RowsInsideEdge(args.z0, args.x_threshold, args.y_threshold)

\* C3: both filters leave the array passed to them unchanged: after the call
\* every row of z holds the coordinates it held before the call.
C3_InputUnchanged ==
    pc \in {"filter_vectors_ragged", "filter_vectors_edge_ragged"} => z = args.z0

----------------------------------------------------------------------------
(* filter_vectors_near_basis *)

\* longest list of input vectors, and longest basis
MaxVecs == 2
MaxBasis == 2
\* largest distance bound tried
MaxDist == 2

\* the points the input vectors and the basis vectors are drawn from
VecPoints == {0, 1} \X {0, 1}
BasisPoints == {0, 1, 2} \X {0, 1}

\* an array of vectors: its dtype ("int" is numpy's default integer, the one
\* `dtype == int' recognises) and its rows
Array(dtype, rows) == [dtype |-> dtype, rows |-> rows]

\* a row of a returned array: a vector, or a row of NaN
Row(v) == [nan |-> FALSE, v |-> v]
NaNRow == [nan |-> TRUE, v |-> <<0, 0>>]

\* the optional argument `distance'
None == [given |-> FALSE, val |-> 0]
Some(d) == [given |-> TRUE, val |-> d]

Returned(dtype, rows) == [raised |-> FALSE, dtype |-> dtype, rows |-> rows]
Raised == [raised |-> TRUE, dtype |-> "none", rows |-> <<>>]

\* the squared Euclidean distance cdist computes between two rows
Dist2(u, v) == (u[1] - v[1]) * (u[1] - v[1]) + (u[2] - v[2]) * (u[2] - v[2])

\* np.argmin of a column: the first index holding the minimum
ArgMin(col) ==
    CHOOSE i \in 1..Len(col) :
        /\ \A k \in 1..Len(col) : col[i] <= col[k]
        /\ \A k \in 1..(i - 1) : col[k] > col[i]

\* min_distance > distance, for a distance given by its square d2
DistGtMutant(d2, distance) == distance < 0 \/ d2 >= distance * distance
DistGt(d2, distance) == distance < 0 \/ d2 > distance * distance

\* if closest_vectors.dtype == int: closest_vectors = closest_vectors.astype(float)
PromoteMutant(closest_vectors) == closest_vectors
Promote(closest_vectors) ==
    IF closest_vectors.dtype = "int"
    THEN Array("float", closest_vectors.rows)
    ELSE closest_vectors

\* closest_vectors[mask, :] = np.nan; an integer array cannot hold NaN
\* (ValueError: cannot convert float NaN to integer)
AssignNaN(closest_vectors, mask) ==
    IF closest_vectors.dtype = "int"
    THEN Raised
    ELSE Returned(closest_vectors.dtype,
                  [j \in 1..Len(closest_vectors.rows) |->
                      IF mask[j] THEN NaNRow ELSE closest_vectors.rows[j]])

filter_vectors_near_basis(vectors, basis, distance) ==
    IF Len(vectors.rows) = 0
    THEN \* np.empty(basis.shape), filled with NaN
         Returned("float", [j \in 1..Len(basis) |-> NaNRow])
    ELSE LET nv == Len(vectors.rows)
             nb == Len(basis)
             distance_mat == [i \in 1..nv |-> [j \in 1..nb |->
                                 Dist2(vectors.rows[i], basis[j])]]
             closest_index == [j \in 1..nb |->
                                 ArgMin([i \in 1..nv |-> distance_mat[i][j]])]
             min_distance == [j \in 1..nb |-> distance_mat[closest_index[j]][j]]
             closest_vectors == Array(vectors.dtype,
                                 [j \in 1..nb |-> Row(vectors.rows[closest_index[j]])])
         IN  IF distance.given
             THEN AssignNaN(Promote(closest_vectors),
                            [j \in 1..nb |-> DistGt(min_distance[j], distance.val)])
             ELSE Returned(closest_vectors.dtype, closest_vectors.rows)

Distances == {None} \cup {Some(d) : d \in 0..MaxDist}

InitBasis ==
    /\ pc = "idle"
    /\ z = <<>>
    /\ args = NoArgs
    /\ ret = <<>>

CallNearBasis ==
    /\ pc = "idle"
    /\ \E dtype \in {"int", "float"}, rows \in SeqsUpTo(VecPoints, MaxVecs),
          basis \in SeqsUpTo(BasisPoints, MaxBasis), distance \in Distances :
          /\ args' = [fn |-> "filter_vectors_near_basis",
                      vectors |-> Array(dtype, rows), basis |-> basis,
                      distance |-> distance]
          /\ ret' = filter_vectors_near_basis(Array(dtype, rows), basis, distance)
    /\ pc' = "filter_vectors_near_basis"
    /\ UNCHANGED z

NextBasis == CallNearBasis

SpecBasis == InitBasis /\ [][NextBasis]_vars

MinDist2(rows, b) ==
    CHOOSE d \in {Dist2(rows[i], b) : i \in 1..Len(rows)} :
        \A i \in 1..Len(rows) : d <= Dist2(rows[i], b)

----------------------------------------------------------------------------
(* get_angle_cartesian_vec and get_angle_cartesian                         *)
(*                                                                         *)
(* The argument of arccos is dot / (|a| |b|), in general irrational: it is *)
(* kept exactly as sgn * sqrt(num / den) in lowest terms, with `ulp', the  *)
(* rounding error of the float quotient (one unit in the last place up or  *)
(* down, or none).  An angle is the arccos of such a value, so an angle is *)
(* in [0, pi] exactly when the value is in [-1, 1], and it is 0.0 exactly  *)
(* when the value is 1.0.                                                  *)

\* most rows in an array handed to get_angle_cartesian_vec
MaxRows == 2

RECURSIVE GCD(_, _)
GCD(m, n) == IF n = 0 THEN m ELSE GCD(n, m % n)

Sign(x) == IF x > 0 THEN 1 ELSE IF x < 0 THEN -1 ELSE 0

Value(sgn, num, den, ulp) == [nan |-> FALSE, sgn |-> sgn, num |-> num, den |-> den, ulp |-> ulp]
NaN == [nan |-> TRUE, sgn |-> 0, num |-> 0, den |-> 1, ulp |-> 0]
One == Value(1, 1, 1, 0)
MinusOne == Value(-1, 1, 1, 0)

\* x > 1.0 and x < -1.0 (both False for NaN)
GtOne(x) == ~x.nan /\ x.sgn > 0 /\ (x.num > x.den \/ (x.num = x.den /\ x.ulp > 0))
LtMinusOne(x) == ~x.nan /\ x.sgn < 0 /\ (x.num > x.den \/ (x.num = x.den /\ x.ulp < 0))

\* the float dot / denom, where denom is the product of two norms given by the
\* squares na2 and nb2; 0 / 0 is NaN
Quotient(dot, na2, nb2, ulp) ==
    IF na2 * nb2 = 0 THEN NaN
    ELSE IF dot = 0 THEN Value(0, 0, 1, ulp)
    ELSE LET g == GCD(dot * dot, na2 * nb2)
         IN  Value(Sign(dot), (dot * dot) \div g, (na2 * nb2) \div g, ulp)

\* np.clip(x, -1.0, 1.0)
ClipMutant(x) == x
Clip(x) == IF LtMinusOne(x) THEN MinusOne ELSE IF GtOne(x) THEN One ELSE x

\* max(-1.0, min(1.0, x))
MinOne(x) == IF GtOne(x) THEN One ELSE x
MaxMinusOne(x) == IF LtMinusOne(x) THEN MinusOne ELSE x

\* np.arccos / math.acos: the angle whose cosine is x, NaN outside [-1, 1]
Arccos(x) == IF x.nan \/ GtOne(x) \/ LtMinusOne(x) THEN NaN ELSE x

\* the angle 0.0 = arccos(1.0)
ZeroAngle == One

\* an array: its shape (rows, columns) and its rows
NdArray(rows, d) == [shape |-> <<Len(rows), d>>, rows |-> rows]

\* sum(u * v) with numpy's broadcasting of a one-column row
RECURSIVE DotUpTo(_, _, _)
DotUpTo(u, v, n) ==
    IF n = 0 THEN 0
    ELSE DotUpTo(u, v, n - 1)
         + (IF Len(u) = 1 THEN u[1] ELSE u[n]) * (IF Len(v) = 1 THEN v[1] ELSE v[n])

Dot(u, v) == DotUpTo(u, v, IF Len(u) >= Len(v) THEN Len(u) ELSE Len(v))

\* np.linalg.norm(v, axis=-1), squared
NormSq(v) == DotUpTo(v, v, Len(v))

\* a.shape != b.shape
ShapeMismatchMutant(a, b) == a.shape[1] # b.shape[1]
ShapeMismatch(a, b) == a.shape # b.shape

AnglesReturned(angles) == [raised |-> FALSE, error |-> "none", angles |-> angles]
AnglesRaised(error) == [raised |-> TRUE, error |-> error, angles |-> <<>>]

\* lines 287-297; rnd[i] is the rounding of the division in row i
AnglesOfRows(a, b, rnd) ==
    IF a.shape[1] # b.shape[1]
    THEN \* a boolean mask of one length indexes an array of another
         AnglesRaised("IndexError")
    ELSE IF a.shape[2] # b.shape[2] /\ a.shape[2] # 1 /\ b.shape[2] # 1
    THEN \* operands could not be broadcast together
         AnglesRaised("ValueError: broadcast")
    ELSE LET n == a.shape[1]
             denom_nonzero == [i \in 1..n |-> NormSq(a.rows[i]) * NormSq(b.rows[i]) # 0]
         IN  AnglesReturned(
                 [i \in 1..n |->
                     IF denom_nonzero[i]
                     THEN Arccos(Clip(Quotient(Dot(a.rows[i], b.rows[i]),
                                               NormSq(a.rows[i]), NormSq(b.rows[i]),
                                               rnd[i])))
                     ELSE ZeroAngle])

get_angle_cartesian_vec(a, b, rnd) ==
    IF ShapeMismatch(a, b)
    THEN AnglesRaised("ValueError: shape")
    ELSE AnglesOfRows(a, b, rnd)

\* the scalar version, on one pair of vectors; ulp is the rounding of its division
get_angle_cartesian(u, v, ulp) ==
    IF NormSq(u) * NormSq(v) = 0
    THEN ZeroAngle
    ELSE Arccos(MaxMinusOne(MinOne(Quotient(Dot(u, v), NormSq(u), NormSq(v), ulp))))

\* the rows of the arrays handed to the angle functions: the documented Nx3
\* arrays, and Nx1 arrays, which numpy would broadcast against them
AngleVecs == {<<0, 0, 0>>, <<1, 0, 0>>, <<-1, 0, 0>>, <<1, 1, 0>>}
ColumnVecs == {<<0>>, <<2>>}
AngleArrays ==
    {NdArray(rows, 3) : rows \in SeqsUpTo(AngleVecs, MaxRows)}
        \cup {NdArray(rows, 1) : rows \in SeqsUpTo(ColumnVecs, MaxRows)}

Roundings(n) == [1..n -> {-1, 0, 1}]

InitAngle ==
    /\ pc = "idle"
    /\ z = <<>>
    /\ args = NoArgs
    /\ ret = <<>>

CallAngleVec ==
    /\ pc = "idle"
    /\ \E a \in AngleArrays, b \in AngleArrays :
          \E rnd \in (IF a.shape = b.shape THEN Roundings(a.shape[1])
                                          ELSE {[i \in 1..a.shape[1] |-> 0]}) :
              /\ args' = [fn |-> "get_angle_cartesian_vec", a |-> a, b |-> b, rnd |-> rnd]
              /\ ret' = get_angle_cartesian_vec(a, b, rnd)
    /\ pc' = "get_angle_cartesian_vec"
    /\ UNCHANGED z

NextAngle == CallAngleVec

SpecAngle == InitAngle /\ [][NextAngle]_vars

\* C6: get_angle_cartesian_vec fails with the shape-mismatch error whenever
\* a.shape != b.shape, with no angle computed and nothing broadcast, and does
\* not raise when the shapes are equal.
C6_ShapeMismatchRaises ==
    pc = "get_angle_cartesian_vec" =>
        /\ args.a.shape # args.b.shape =>
              /\ ret.raised
              /\ ret.error = "ValueError: shape"
              /\ ret.angles = <<>>
        /\ args.a.shape = args.b.shape => ~ret.raised

\* a call with as many Nx1 rows as Nx3 rows, which numpy could broadcast
C6_Witness ==
    /\ pc = "get_angle_cartesian_vec"
    /\ args.a.shape = <<MaxRows, 1>>
    /\ args.b.shape = <<MaxRows, 3>>
    /\ ret.raised

\* C7: for inputs of one shape there is one angle per row, each in [0, pi]
\* (never NaN: no 0/0, and the cosine is within [-1, 1] when arccos takes it);
\* a row where either vector has zero norm has the angle exactly 0; the scalar
\* get_angle_cartesian gives the same value for the pair of each row.
C7_AnglesDefined ==
    (pc = "get_angle_cartesian_vec" /\ args.a.shape = args.b.shape) =>
        /\ ~ret.raised
        /\ Len(ret.angles) = args.a.shape[1]
        /\ \A i \in 1..Len(ret.angles) :
              LET angle == ret.angles[i]
                  u == args.a.rows[i]
                  v == args.b.rows[i]
              IN  /\ ~angle.nan
                  /\ ~GtOne(angle) /\ ~LtMinusOne(angle)
                  /\ (NormSq(u) = 0 \/ NormSq(v) = 0) => angle = ZeroAngle
                  /\ angle = get_angle_cartesian(u, v, args.rnd[i])

\* a row with a zero vector beside a row of parallel vectors whose quotient was
\* rounded up past 1.0
C7_Witness ==
    /\ pc = "get_angle_cartesian_vec"
    /\ args.a.shape = <<2, 3>>
    /\ args.b.shape = <<2, 3>>
    /\ NormSq(args.a.rows[1]) = 0
    /\ NormSq(args.b.rows[1]) # 0
    /\ args.a.rows[2] = <<1, 1, 0>>
    /\ args.b.rows[2] = <<1, 1, 0>>
    /\ args.rnd[2] = 1
    /\ ret.angles = <<ZeroAngle, ZeroAngle>>

----------------------------------------------------------------------------
(* get_rotation_matrix_between_vectors                                     *)
(*                                                                         *)
(* The vectors are multiples of the coordinate axes.  On them every norm   *)
(* is an integer, every normalised axis is a signed unit axis or zero,     *)
(* every quotient dot / (|a| |b|) is exactly -1, 0 or 1, so every angle is *)
(* a multiple of pi/2 and every averaged angle a multiple of pi/4.  The    *)
(* entries of a rotation matrix are then numbers p + q * sqrt(1/2) with    *)
(* integers p and q, kept exactly as the pair <<p, q>>.                    *)

\* most to-pairs in one batch
MaxBatch == 2

\* the number p + q * sqrt(1/2)
ZNum(p, q) == <<p, q>>
ZAdd(x, y) == <<x[1] + y[1], x[2] + y[2]>>
ZSub(x, y) == <<x[1] - y[1], x[2] - y[2]>>
\* an integer times a number
ZScale(k, x) == <<k * x[1], k * x[2]>>
\* twice the product of two numbers: sqrt(1/2) * sqrt(1/2) = 1/2
ZTwiceMul(x, y) == <<2 * x[1] * y[1] + x[2] * y[2], 2 * (x[1] * y[2] + x[2] * y[1])>>
\* the integer a number is, when it has no irrational part
ZInt(x) == x[1]

\* math.cos and math.sin of k * pi/4
Cos8(k) ==
    CASE k % 8 = 0 -> ZNum(1, 0)
      [] k % 8 \in {1, 7} -> ZNum(0, 1)
      [] k % 8 \in {2, 6} -> ZNum(0, 0)
      [] k % 8 \in {3, 5} -> ZNum(0, -1)
      [] k % 8 = 4 -> ZNum(-1, 0)

Sin8(k) ==
    CASE k % 8 \in {0, 4} -> ZNum(0, 0)
      [] k % 8 \in {1, 3} -> ZNum(0, 1)
      [] k % 8 = 2 -> ZNum(1, 0)
      [] k % 8 \in {5, 7} -> ZNum(0, -1)
      [] k % 8 = 6 -> ZNum(-1, 0)

\* an angle returned by get_angle_cartesian_vec, in units of pi/2
Quarters(angle) ==
    CASE angle = One -> 0
      [] angle.sgn = 0 -> 1
      [] angle = MinusOne -> 2

\* np.cross(a, b, axis=-1)
Cross(a, b) ==
    <<a[2] * b[3] - a[3] * b[2], a[3] * b[1] - a[1] * b[3], a[1] * b[2] - a[2] * b[1]>>

\* np.isclose(np.sum(np.abs(v), axis=-1), 0.0)
NearZero(v) == Abs(v[1]) + Abs(v[2]) + Abs(v[3]) = 0

\* the integer square root of a perfect square
ISqrt(n) == CHOOSE r \in 0..n : r * r = n

\* normalize_or_zero on one row: v / |v|, or v when |v| is not > 0
normalize_or_zero(v) ==
    LET norm == ISqrt(NormSq(v))
    IN  IF norm > 0 THEN <<v[1] \div norm, v[2] \div norm, v[3] \div norm>> ELSE v

\* transforms3d.axangles.axangle2mat(axis, angle, is_normalized=True), for
\* the angle k * pi/4
axangle2mat(axis, k) ==
    LET x == axis[1]
        y == axis[2]
        zz == axis[3]
        c == Cos8(k)
        sn == Sin8(k)
        C == ZSub(ZNum(1, 0), c)
    IN  << <<ZAdd(ZScale(x * x, C), c),
             ZSub(ZScale(x * y, C), ZScale(zz, sn)),
             ZAdd(ZScale(zz * x, C), ZScale(y, sn))>>,
           <<ZAdd(ZScale(x * y, C), ZScale(zz, sn)),
             ZAdd(ZScale(y * y, C), c),
             ZSub(ZScale(y * zz, C), ZScale(x, sn))>>,
           <<ZSub(ZScale(zz * x, C), ZScale(y, sn)),
             ZAdd(ZScale(y * zz, C), ZScale(x, sn)),
             ZAdd(ZScale(zz * zz, C), c)>> >>

\* np.identity(3)
Identity3 ==
    << <<ZNum(1, 0), ZNum(0, 0), ZNum(0, 0)>>,
       <<ZNum(0, 0), ZNum(1, 0), ZNum(0, 0)>>,
       <<ZNum(0, 0), ZNum(0, 0), ZNum(1, 0)>> >>

\* np.matmul(M, v) for a matrix of numbers and an integer vector
MatVec(M, v) ==
    LET Comp(i) == ZAdd(ZAdd(ZScale(v[1], M[i][1]), ZScale(v[2], M[i][2])),
                        ZScale(v[3], M[i][3]))
    IN  <<Comp(1), Comp(2), Comp(3)>>

\* a vector of numbers without irrational parts, as a vector of integers
ZInts(v) == <<ZInt(v[1]), ZInt(v[2]), ZInt(v[3])>>

\* np.matmul(R2, R1), R1 a matrix of integers
MatMul(R2, R1) ==
    LET Entry(i, j) ==
            ZAdd(ZAdd(ZScale(ZInt(R1[1][j]), R2[i][1]), ZScale(ZInt(R1[2][j]), R2[i][2])),
                 ZScale(ZInt(R1[3][j]), R2[i][3]))
    IN  << <<Entry(1, 1), Entry(1, 2), Entry(1, 3)>>,
           <<Entry(2, 1), Entry(2, 2), Entry(2, 3)>>,
           <<Entry(3, 1), Entry(3, 2), Entry(3, 3)>> >>

\* get_angle_cartesian_vec on one row; the quotient of the division is exact
AngleBetween(u, v) ==
    get_angle_cartesian_vec(NdArray(<<u>>, 3), NdArray(<<v>>, 3), <<0>>).angles[1]

\* lines 187, 192-195, 198: the to-plane normal of one entry after the fallbacks,
\* normalised
plane_normal_to(from_v1, from_v2, to_v1, to_v2) ==
    LET n0 == Cross(to_v1, to_v2)
        n1 == IF NearZero(n0) THEN Cross(from_v1, to_v1) ELSE n0
        n2 == IF NearZero(n1) THEN Cross(from_v2, to_v2) ELSE n1
    IN  normalize_or_zero(n2)

\* lines 186-188, 199: the common axis of one entry, from the to-plane normal as
\* it is before the fallbacks, normalised
plane_common_axes_mutant(from_v1, from_v2, to_v1, to_v2) ==
    normalize_or_zero(Cross(Cross(from_v1, from_v2),
                            plane_normal_to(from_v1, from_v2, to_v1, to_v2)))
plane_common_axes(from_v1, from_v2, to_v1, to_v2) ==
    normalize_or_zero(Cross(Cross(from_v1, from_v2), Cross(to_v1, to_v2)))

\* lines 202-216: the rotation of the from-plane into the to-plane
R1(from_v1, from_v2, to_v1, to_v2) ==
    LET axis == plane_common_axes(from_v1, from_v2, to_v1, to_v2)
        common_valid == ~NearZero(axis)
        angle == AngleBetween(Cross(from_v1, from_v2),
                              plane_normal_to(from_v1, from_v2, to_v1, to_v2))
    IN  IF common_valid THEN axangle2mat(axis, 2 * Quarters(angle)) ELSE Identity3

\* lines 219-243: the rotation within the to-plane
R2(from_v1, from_v2, to_v1, to_v2) ==
    LET r1 == R1(from_v1, from_v2, to_v1, to_v2)
        normal == plane_normal_to(from_v1, from_v2, to_v1, to_v2)
        rot_from_v1 == ZInts(MatVec(r1, from_v1))
        rot_from_v2 == ZInts(MatVec(r1, from_v2))
        angle1 == AngleBetween(rot_from_v1, to_v1)
        angle2 == AngleBetween(rot_from_v2, to_v2)
        \* 0.5 * (angle1 + angle2), in units of pi/4
        angles == Quarters(angle1) + Quarters(angle2)
        neg_angle_mask == Dot(Cross(rot_from_v1, to_v1), normal) < 0
    IN  axangle2mat(normal, IF neg_angle_mask THEN -angles ELSE angles)

\* one matrix R = R2 . R1 per to-pair
get_rotation_matrix_between_vectors(from_v1, from_v2, to_v1, to_v2) ==
    [i \in 1..Len(to_v1) |->
        MatMul(R2(from_v1, from_v2, to_v1[i], to_v2[i]),
               R1(from_v1, from_v2, to_v1[i], to_v2[i]))]

\* the reference vectors (every reference pair spans a plane) and the
\* to-vectors tried
FromVecs1 == {<<1, 0, 0>>, <<0, 0, -1>>}
FromVecs2 == {<<0, 1, 0>>, <<0, 2, 0>>}
ToVecs == {<<0, 0, 0>>, <<1, 0, 0>>, <<-1, 0, 0>>, <<0, 1, 0>>, <<0, 0, 1>>}

\* z holds the caller's reference pair (from_v1, from_v2)
InitRot ==
    /\ pc = "idle"
    /\ z \in FromVecs1 \X FromVecs2
    /\ args = NoArgs
    /\ ret = <<>>

CallRotation ==
    /\ pc = "idle"
    /\ \E n \in 1..MaxBatch :
          \E to_v1 \in [1..n -> ToVecs], to_v2 \in [1..n -> ToVecs] :
              /\ args' = [fn |-> "get_rotation_matrix_between_vectors",
                          from_v1 |-> z[1], from_v2 |-> z[2],
                          to_v1 |-> to_v1, to_v2 |-> to_v2]
              /\ ret' = get_rotation_matrix_between_vectors(z[1], z[2], to_v1, to_v2)
    /\ pc' = "get_rotation_matrix_between_vectors"
    /\ UNCHANGED z

NextRot == CallRotation

SpecRot == InitRot /\ [][NextRot]_vars

\* the rotations that map the coordinate axes onto coordinate axes
Rotations ==
    LET Perms == {p \in [1..3 -> 1..3] : \A i, j \in 1..3 : p[i] = p[j] => i = j}
        M(p, sg) == [i \in 1..3 |-> [j \in 1..3 |-> IF p[i] = j THEN sg[i] ELSE 0]]
        Det(m) == m[1][1] * (m[2][2] * m[3][3] - m[2][3] * m[3][2])
                  - m[1][2] * (m[2][1] * m[3][3] - m[2][3] * m[3][1])
                  + m[1][3] * (m[2][1] * m[3][2] - m[2][2] * m[3][1])
    IN  {m \in {M(p, sg) : p \in Perms, sg \in [1..3 -> {-1, 1}]} : Det(m) = 1}

\* R . v for a matrix of integers
Rotate(m, v) ==
    LET Comp(i) == m[i][1] * v[1] + m[i][2] * v[2] + m[i][3] * v[3]
    IN  <<Comp(1), Comp(2), Comp(3)>>

\* an integer vector as a vector of numbers
ZVec(v) == <<ZNum(v[1], 0), ZNum(v[2], 0), ZNum(v[3], 0)>>

\* C8: round trip: for a non-degenerate reference pair and a rotation R_true,
\* with to_v1[i] = R_true . from_v1 and to_v2[i] = R_true . from_v2 the returned
\* R[i] maps from_v1 to to_v1[i] and from_v2 to to_v2[i], for every entry i.
C8_RoundTrip ==
    (pc = "get_rotation_matrix_between_vectors"
        /\ ~NearZero(Cross(args.from_v1, args.from_v2))) =>
        \A i \in 1..Len(args.to_v1) :
            (\E R_true \in Rotations :
                /\ args.to_v1[i] = Rotate(R_true, args.from_v1)
                /\ args.to_v2[i] = Rotate(R_true, args.from_v2))
            => /\ MatVec(ret[i], args.from_v1) = ZVec(args.to_v1[i])
               /\ MatVec(ret[i], args.from_v2) = ZVec(args.to_v2[i])

\* M^T . M is the identity
Orthonormal(m) ==
    \A i, j \in 1..3 :
        ZAdd(ZAdd(ZTwiceMul(m[1][i], m[1][j]), ZTwiceMul(m[2][i], m[2][j])),
             ZTwiceMul(m[3][i], m[3][j]))
            = IF i = j THEN ZNum(2, 0) ELSE ZNum(0, 0)

\* C9: for every batch of to-pairs, degenerate ones included, the call returns
\* one 3x3 matrix per to-pair and each of them is orthonormal.
C9_AlwaysARotation ==
    pc = "get_rotation_matrix_between_vectors" =>
        /\ Len(ret) = Len(args.to_v1)
        /\ \A i \in 1..Len(ret) : Orthonormal(ret[i])

\* the to-plane normal of entry i as the fallback chain leaves it: to_v1 x to_v2,
\* else from_v1 x to_v1, else from_v2 x to_v2
FallbackNormalTo(i) ==
    IF ~NearZero(Cross(args.to_v1[i], args.to_v2[i])) THEN Cross(args.to_v1[i], args.to_v2[i])
    ELSE IF ~NearZero(Cross(args.from_v1, args.to_v1[i])) THEN Cross(args.from_v1, args.to_v1[i])
    ELSE Cross(args.from_v2, args.to_v2[i])

PlaneNormalFrom == Cross(args.from_v1, args.from_v2)

R1OfEntry(i) == R1(args.from_v1, args.from_v2, args.to_v1[i], args.to_v2[i])

\* m turns the from-plane normal onto the direction n and leaves axis fixed
RotatesOnto(m, axis, n) ==
    /\ Orthonormal(m)
    /\ MatVec(m, axis) = ZVec(axis)
    /\ LET len == ISqrt(NormSq(PlaneNormalFrom))
           unit == normalize_or_zero(n)
       IN  MatVec(m, PlaneNormalFrom) = ZVec(<<len * unit[1], len * unit[2], len * unit[3]>>)

\* R1 of entry i is as described, for the common axis `axis'
R1AsDescribed(i, axis) ==
    /\ plane_normal_to(args.from_v1, args.from_v2, args.to_v1[i], args.to_v2[i])
           = normalize_or_zero(FallbackNormalTo(i))
    /\ R1OfEntry(i) = Identity3 <=> NearZero(axis)
    /\ ~NearZero(axis) => RotatesOnto(R1OfEntry(i), axis, FallbackNormalTo(i))

----------------------------------------------------------------------------
(* The 2x2 map of vector lists of the tests, in units of 1e-6 *)

FixtureList13 ==
    << <<89685, 292971>>, <<17937, 277027>>, <<-69755, 257097>>, <<-165419, 241153>>,
       <<49825, 149475>>, <<-37867, 129545>>, <<-117587, 113601>>, <<149475, 65769>>,
       <<229195, 45839>>, <<141503, 25909>>, <<73741, 13951>>, <<1993, 1993>>,
       <<-69755, -9965>> >>

diffraction_vectors_map ==
    << <<SubSeq(FixtureList13, 1, 7), FixtureList13>>,
       <<SubSeq(FixtureList13, 1, 11), <<FixtureList13[12]>> >> >>

\* edge thresholds tried on the map (0.26 is the one of claim C10)
FixtureThresholds == {50000, 118000, 128000, 260000, 300000}

InitFixture ==
    /\ pc = "idle"
    /\ \E ix \in 1..2, iy \in 1..2 : z = diffraction_vectors_map[ix][iy]
    /\ args = NoArgs
    /\ ret = <<>>

CallFilterEdgeOnMap ==
    /\ pc = "idle"
    /\ \E xt \in FixtureThresholds, yt \in FixtureThresholds :
          /\ args' = [fn |-> "filter_vectors_edge_ragged", z0 |-> z,
                      x_threshold |-> xt, y_threshold |-> yt]
          /\ ret' = filter_vectors_edge_ragged(z, xt, yt)
          /\ z' = edge_z_written(z, xt, yt)
    /\ pc' = "filter_vectors_edge_ragged"

NextFixture == CallFilterEdgeOnMap

SpecFixture == InitFixture /\ [][NextFixture]_vars

\* the call of claim C10 has returned
EdgeCallOfC10 ==
    /\ pc = "filter_vectors_edge_ragged"
    /\ args.z0 = diffraction_vectors_map[1][2]
    /\ args.x_threshold = 260000
    /\ args.y_threshold = 260000

\* C10 as stated: with both thresholds 0.26 the 13-point list of cell [0][1]
\* comes back with 12 vectors, one point excluded.
C10_TwelveRemain == EdgeCallOfC10 => Len(ret) = 12

\* C10 as amended: with both thresholds 0.26 the 13-point list of cell [0][1]
\* comes back with 11 vectors: the first two points, whose y coordinates
\* 0.292971 and 0.277027 exceed the bound, are excluded and the others are
\* returned in their order.
C10_ElevenRemain ==
    EdgeCallOfC10 =>
        /\ Len(ret) = 11
        /\ ret = SubSeq(args.z0, 3, 13)
        /\ \A i \in 1..2 : args.z0[i][2] > args.y_threshold

C10_Witness == EdgeCallOfC10 /\ Len(args.z0) = 13

-----------------------------------------------------------------------------
(* Unique-vector clustering of the map: get_unique_vectors with the greedy    *)
(* distance-threshold merge.  Coordinates and thresholds are in units of 1e-6;*)
(* a representative is kept exactly as the weighted sum of its cluster and the *)
(* cluster's weight (the centroid is sum / weight).                           *)

\* distance thresholds tried: 0.001, 0.002, ... , MaxThrSteps * 0.001
MaxThrSteps == 150

\* the vectors of all cells of the map, cell after cell
flatten_diffraction_vectors(map) == map[1][1] \o map[1][2] \o map[2][1] \o map[2][2]

LexLt(u, v) == u[1] < v[1] \/ (u[1] = v[1] /\ u[2] < v[2])

RECURSIVE SortRows(_)
SortRows(S) ==
    IF S = {} THEN <<>>
    ELSE LET m == CHOOSE m \in S : \A o \in S : o = m \/ LexLt(m, o)
         IN  <<m>> \o SortRows(S \ {m})

\* the distinct vectors in lexicographic order, and how often each occurs
UniqueRows(rows) == SortRows({rows[i] : i \in 1..Len(rows)})
CountOf(rows, v) == Cardinality({i \in 1..Len(rows) : rows[i] = v})

\* the largest unit all coordinates are whole multiples of
RECURSIVE UnitBetween(_, _, _)
UnitBetween(rows, lo, hi) ==
    IF lo = hi THEN GCD(Abs(rows[lo][1]), Abs(rows[lo][2]))
    ELSE LET mid == (lo + hi) \div 2
             left == UnitBetween(rows, lo, mid)
             right == UnitBetween(rows, mid + 1, hi)
         IN  GCD(left, right)

Unit(rows) ==
    LET g == IF rows = <<>> THEN 0 ELSE UnitBetween(rows, 1, Len(rows))
    IN  IF g = 0 THEN 1 ELSE g

\* a / b < c / d for a, c >= 0 and b, d > 0, without forming the products
RECURSIVE FracLt(_, _, _, _)
FracLt(a, b, c, d) ==
    IF a \div b # c \div d THEN a \div b < c \div d
    ELSE IF c % d = 0 THEN FALSE
    ELSE IF a % b = 0 THEN TRUE
    ELSE FracLt(d, c % d, b, a % b)

\* |u - v| < distance_threshold, for coordinates that are multiples of unit:
\* (|u - v| / unit)^2 * unit^2 < distance_threshold^2
Closer(u, v, distance_threshold, unit) ==
    FracLt(Dist2(<<u[1] \div unit, u[2] \div unit>>, <<v[1] \div unit, v[2] \div unit>>),
           distance_threshold, distance_threshold, unit * unit)

RECURSIVE WeightedSum(_, _, _)
WeightedSum(members, rows, n) ==
    IF n = 0 THEN [sum |-> <<0, 0>>, weight |-> 0]
    ELSE LET rest == WeightedSum(members, rows, n - 1)
             w == CountOf(rows, members[n])
         IN  [sum |-> <<rest.sum[1] + w * members[n][1], rest.sum[2] + w * members[n][2]>>,
              weight |-> rest.weight + w]

\* the representative of a cluster: the centroid of its members, each weighted
\* by the number of times it occurs in the map
Centroid(members, rows) == WeightedSum(members, rows, Len(members))

\* greedy merge: the first remaining vector takes every remaining vector closer
\* to it than distance_threshold; the cluster is replaced by its centroid
RECURSIVE GreedyMerge(_, _, _, _)
GreedyMerge(remaining, rows, distance_threshold, unit) ==
    IF remaining = <<>> THEN <<>>
    ELSE LET In(v) == Closer(remaining[1], v, distance_threshold, unit)
             Out(v) == ~In(v)
         IN  <<Centroid(SelectSeq(remaining, In), rows)>>
             \o GreedyMerge(SelectSeq(remaining, Out), rows, distance_threshold, unit)

get_unique_vectors(map, distance_threshold) ==
    LET rows == flatten_diffraction_vectors(map)
    IN  GreedyMerge(UniqueRows(rows), rows, distance_threshold, Unit(rows))

DistanceThresholds == {k * 1000 : k \in 1..MaxThrSteps}

InitCluster ==
    /\ pc = "idle"
    /\ z = diffraction_vectors_map
    /\ args = NoArgs
    /\ ret = <<>>

CallUniqueVectors ==
    /\ pc = "idle"
    /\ \E t \in DistanceThresholds :
          /\ args' = [fn |-> "get_unique_vectors", distance_threshold |-> t]
          /\ ret' = get_unique_vectors(z, t)
    /\ pc' = "get_unique_vectors"
    /\ UNCHANGED z

NextCluster == CallUniqueVectors

SpecCluster == InitCluster /\ [][NextCluster]_vars

\* a representative that is exactly the vector v
IsVector(rep, v) == rep.sum = <<rep.weight * v[1], rep.weight * v[2]>>

\* the parts of C11 about the two tabulated thresholds: 13 representatives, the
\* 13 distinct vectors in lexicographic order, for 0.01, and 7 for 0.1
C11_FixtureCounts ==
    pc = "get_unique_vectors" =>
        /\ args.distance_threshold = 10000 =>
              /\ Len(ret) = 13
              /\ \A i \in 1..Len(ret) : IsVector(ret[i], SortRows({FixtureList13[k] : k \in 1..13})[i])
        /\ args.distance_threshold = 100000 => Len(ret) = 7

\* C11: clustering the flattened map gives exactly 13 representatives (the 13
\* distinct vectors in lexicographic order) for distance_threshold = 0.01 and
\* exactly 7 for distance_threshold = 0.1, and the number of representatives
\* never increases when distance_threshold increases.
C11_CountNeverIncreases ==
    pc = "get_unique_vectors" =>
        /\ C11_FixtureCounts
        /\ \A t \in DistanceThresholds :
              t >= args.distance_threshold => Len(get_unique_vectors(z, t)) <= Len(ret)

-----------------------------------------------------------------------------
(* float64 arithmetic, bit for bit.  A natural number is a sequence of limbs, *)
(* least significant first, without leading zeros; a float is sgn * m * 2^e   *)
(* with m a natural number of exactly Precision bits (or zero).  Every        *)
(* operation rounds its exact result to nearest, ties to even.  The values    *)
(* met here stay far from the subnormal and the overflow range.               *)

Precision == 53

LimbBits == 15
Base == 2^LimbBits

BLimb(a, i) == IF i <= Len(a) THEN a[i] ELSE 0

RECURSIVE BTrim(_)
BTrim(a) ==
    IF a = <<>> THEN <<>>
    ELSE IF a[Len(a)] = 0 THEN BTrim(SubSeq(a, 1, Len(a) - 1))
    ELSE a

RECURSIVE BInt(_)
BInt(n) == IF n = 0 THEN <<>> ELSE <<n % Base>> \o BInt(n \div Base)

RECURSIVE BAddFrom(_, _, _, _)
BAddFrom(a, b, i, carry) ==
    IF i > Len(a) /\ i > Len(b) THEN (IF carry = 0 THEN <<>> ELSE <<carry>>)
    ELSE LET x == BLimb(a, i) + BLimb(b, i) + carry
         IN  <<x % Base>> \o BAddFrom(a, b, i + 1, x \div Base)

BAdd(a, b) == BAddFrom(a, b, 1, 0)

\* a - b for a >= b
RECURSIVE BSubFrom(_, _, _, _)
BSubFrom(a, b, i, borrow) ==
    IF i > Len(a) THEN <<>>
    ELSE LET x == a[i] - BLimb(b, i) - borrow
         IN  <<IF x < 0 THEN x + Base ELSE x>> \o BSubFrom(a, b, i + 1, IF x < 0 THEN 1 ELSE 0)

BSub(a, b) == BTrim(BSubFrom(a, b, 1, 0))

RECURSIVE BCmpFrom(_, _, _)
BCmpFrom(a, b, i) ==
    IF i = 0 THEN 0
    ELSE IF a[i] # b[i] THEN (IF a[i] < b[i] THEN -1 ELSE 1)
    ELSE BCmpFrom(a, b, i - 1)

BCmp(a, b) ==
    IF Len(a) # Len(b) THEN (IF Len(a) < Len(b) THEN -1 ELSE 1)
    ELSE BCmpFrom(a, b, Len(a))

BLeq(a, b) == BCmp(a, b) <= 0

RECURSIVE BMulLimb(_, _, _, _)
BMulLimb(a, d, i, carry) ==
    IF i > Len(a) THEN (IF carry = 0 THEN <<>> ELSE <<carry>>)
    ELSE LET x == a[i] * d + carry
         IN  <<x % Base>> \o BMulLimb(a, d, i + 1, x \div Base)

RECURSIVE BMulFrom(_, _, _)
BMulFrom(a, b, j) ==
    IF j > Len(b) THEN <<>>
    ELSE BAdd(BMulLimb(a, b[j], 1, 0), <<0>> \o BMulFrom(a, b, j + 1))

BMul(a, b) == BTrim(BMulFrom(a, b, 1))

RECURSIVE BZeros(_)
BZeros(n) == IF n = 0 THEN <<>> ELSE <<0>> \o BZeros(n - 1)

\* a * 2^k
BShl(a, k) ==
    IF a = <<>> THEN <<>>
    ELSE BZeros(k \div LimbBits) \o BTrim(BMulLimb(a, 2^(k % LimbBits), 1, 0))

RECURSIVE BDivLimbFrom(_, _, _, _)
BDivLimbFrom(a, d, i, r) ==
    IF i = 0 THEN <<>>
    ELSE LET x == r * Base + a[i]
         IN  BDivLimbFrom(a, d, i - 1, x % d) \o <<x \div d>>

\* floor(a / 2^k)
BShr(a, k) ==
    IF k \div LimbBits >= Len(a) THEN <<>>
    ELSE LET high == SubSeq(a, k \div LimbBits + 1, Len(a))
         IN  BTrim(BDivLimbFrom(high, 2^(k % LimbBits), Len(high), 0))

BitLen(a) ==
    IF a = <<>> THEN 0
    ELSE LimbBits * (Len(a) - 1)
         + (CHOOSE n \in 1..LimbBits : 2^(n - 1) <= a[Len(a)] /\ a[Len(a)] < 2^n)

BOdd(a) == a # <<>> /\ a[1] % 2 = 1

\* long division, bit by bit: the quotient bits i down to lo of n / d, and
\* what is left of n
RECURSIVE BDivBits(_, _, _, _)
BDivBits(n, d, i, lo) ==
    IF i < lo THEN [q |-> <<>>, r |-> n]
    ELSE LET t == BShl(d, i)
         IN  IF BLeq(t, n)
             THEN LET rest == BDivBits(BSub(n, t), d, i - 1, lo)
                  IN  [q |-> BAdd(rest.q, BShl(<<1>>, i)), r |-> rest.r]
             ELSE BDivBits(n, d, i - 1, lo)

\* the same, one limb of quotient bits at a time
RECURSIVE BDivLimbs(_, _, _)
BDivLimbs(n, d, i) ==
    IF i < 0 THEN [q |-> <<>>, r |-> n]
    ELSE LET lo == IF i >= LimbBits THEN i - LimbBits + 1 ELSE 0
             part == BDivBits(n, d, i, lo)
             rest == BDivLimbs(part.r, d, lo - 1)
         IN  [q |-> BAdd(part.q, rest.q), r |-> rest.r]

\* floor(n / d) and the remainder
BDivMod(n, d) == BDivLimbs(n, d, BitLen(n) - BitLen(d))

\* the bits i down to lo of floor(sqrt(n)), added to the higher bits r
RECURSIVE BSqrtBits(_, _, _, _)
BSqrtBits(n, r, i, lo) ==
    IF i < lo THEN r
    ELSE LET c == BAdd(r, BShl(<<1>>, i))
         IN  IF BLeq(BMul(c, c), n) THEN BSqrtBits(n, c, i - 1, lo)
             ELSE BSqrtBits(n, r, i - 1, lo)

RECURSIVE BSqrtLimbs(_, _, _)
BSqrtLimbs(n, r, i) ==
    IF i < 0 THEN r
    ELSE LET lo == IF i >= LimbBits THEN i - LimbBits + 1 ELSE 0
             part == BSqrtBits(n, r, i, lo)
         IN  BSqrtLimbs(n, part, lo - 1)

\* floor(sqrt(n))
BSqrt(n) == BSqrtLimbs(n, <<>>, (BitLen(n) + 1) \div 2)

Float(sgn, m, e) == [kind |-> "num", sgn |-> sgn, m |-> m, e |-> e]
FZero == Float(0, <<>>, 0)
FNaN == [kind |-> "nan", sgn |-> 0, m |-> <<>>, e |-> 0]
FInf(sgn) == [kind |-> "inf", sgn |-> sgn, m |-> <<>>, e |-> 0]

IsZero(x) == x.kind = "num" /\ x.sgn = 0

\* sgn * (n + f) * 2^e rounded to Precision bits, where 0 <= f < 1 and f > 0
\* iff sticky; an inexact n has more than Precision bits
FRound(sgn, n, e, sticky) ==
    IF n = <<>> THEN FZero
    ELSE IF BitLen(n) <= Precision
    THEN Float(sgn, BShl(n, Precision - BitLen(n)), e - (Precision - BitLen(n)))
    ELSE LET k == BitLen(n) - Precision
             q == BShr(n, k)
             c == BCmp(BSub(n, BShl(q, k)), BShl(<<1>>, k - 1))
             r == IF c > 0 \/ (c = 0 /\ (sticky \/ BOdd(q))) THEN BAdd(q, <<1>>) ELSE q
         IN  IF BitLen(r) > Precision THEN Float(sgn, BShr(r, 1), e + k + 1)
             ELSE Float(sgn, r, e + k)

\* the float64 holding the integer k
FInt(k) == FRound(Sign(k), BInt(Abs(k)), 0, FALSE)

FMul(x, y) ==
    IF x.kind = "nan" \/ y.kind = "nan" THEN FNaN
    ELSE IF x.kind = "inf" \/ y.kind = "inf"
    THEN (IF IsZero(x) \/ IsZero(y) THEN FNaN ELSE FInf(x.sgn * y.sgn))
    ELSE FRound(x.sgn * y.sgn, BMul(x.m, y.m), x.e + y.e, FALSE)

\* x + y for x, y >= 0
FAdd(x, y) ==
    IF x.kind = "nan" \/ y.kind = "nan" THEN FNaN
    ELSE IF x.kind = "inf" \/ y.kind = "inf" THEN FInf(1)
    ELSE IF IsZero(x) THEN y
    ELSE IF IsZero(y) THEN x
    ELSE IF x.e - y.e > Precision + 2 THEN x
    ELSE IF y.e - x.e > Precision + 2 THEN y
    ELSE LET e == IF x.e < y.e THEN x.e ELSE y.e
         IN  FRound(1, BAdd(BShl(x.m, x.e - e), BShl(y.m, y.e - e)), e, FALSE)

FSqrt(x) ==
    IF x.kind = "nan" \/ x.sgn < 0 THEN FNaN
    ELSE IF x.kind = "inf" \/ IsZero(x) THEN x
    ELSE LET s == IF (x.e - (Precision + 3)) % 2 = 0 THEN Precision + 3 ELSE Precision + 4
             n == BShl(x.m, s)
             r == BSqrt(n)
         IN  FRound(1, r, (x.e - s) \div 2, BMul(r, r) # n)

FDiv(x, y) ==
    IF x.kind = "nan" \/ y.kind = "nan" THEN FNaN
    ELSE IF x.kind = "inf" THEN (IF y.kind = "inf" THEN FNaN ELSE FInf(x.sgn * (IF y.sgn < 0 THEN -1 ELSE 1)))
    ELSE IF y.kind = "inf" THEN FZero
    ELSE IF IsZero(y) THEN (IF IsZero(x) THEN FNaN ELSE FInf(x.sgn))
    ELSE IF IsZero(x) THEN FZero
    ELSE LET dm == BDivMod(BShl(x.m, Precision + 3), y.m)
         IN  FRound(x.sgn * y.sgn, dm.q, x.e - y.e - (Precision + 3), dm.r # <<>>)

\* x > 0
FPositive(x) == x.kind # "nan" /\ x.sgn > 0

-----------------------------------------------------------------------------
(* normalize_or_zero on a float64 array v, written in place.  v is one vector *)
(* (shape (d,)) or a batch of vectors (shape (N, d)), d = 2 or 3.             *)

MaxNormRows == 2
MaxCalls == 2

\* the array v : `single' tells a lone vector from a batch
FloatArray(single, rows) == [single |-> single, rows |-> rows]

\* np.linalg.norm(v, axis=-1) of one row: sqrt(add.reduce(x * x)); the three
\* squares of a 3-vector are added in either association order
SumOfSquares(row, order) ==
    IF Len(row) = 2 THEN FAdd(FMul(row[1], row[1]), FMul(row[2], row[2]))
    ELSE IF order = "left"
    THEN FAdd(FAdd(FMul(row[1], row[1]), FMul(row[2], row[2])), FMul(row[3], row[3]))
    ELSE FAdd(FMul(row[1], row[1]), FAdd(FMul(row[2], row[2]), FMul(row[3], row[3])))

linalg_norm(row, order) == FSqrt(SumOfSquares(row, order))

\* norms > 0
nonzero_mask_mutant(norm) == norm.kind # "nan" /\ norm.sgn >= 0
nonzero_mask(norm) == FPositive(norm)

\* v[nonzero_mask] /= norms[nonzero_mask].reshape(-1, 1), on one row
DivideRow(row, norm) ==
    IF Len(row) = 2 THEN <<FDiv(row[1], norm), FDiv(row[2], norm)>>
    ELSE <<FDiv(row[1], norm), FDiv(row[2], norm), FDiv(row[3], norm)>>

RECURSIVE NormalizeRows(_, _, _)
NormalizeRows(rows, order, n) ==
    IF n = 0 THEN <<>>
    ELSE LET norm == linalg_norm(rows[n], order)
         IN  Append(NormalizeRows(rows, order, n - 1),
                    IF nonzero_mask(norm) THEN DivideRow(rows[n], norm) ELSE rows[n])

\* the array v after normalize_or_zero(v)
normalize_or_zero_array(v, order) ==
    FloatArray(v.single, NormalizeRows(v.rows, order, Len(v.rows)))

FloatRow(ints) ==
    IF Len(ints) = 2 THEN <<FInt(ints[1]), FInt(ints[2])>>
    ELSE <<FInt(ints[1]), FInt(ints[2]), FInt(ints[3])>>

NormRows2 == {FloatRow(r) : r \in {<<0, 0>>, <<2, 2>>, <<3, 4>>, <<1, 0>>, <<-3, 1>>}}
NormRows3 ==
    {FloatRow(r) : r \in {<<0, 0, 0>>, <<1, 2, 2>>, <<-3, -3, 1>>, <<1, 1, 1>>, <<0, -2, 3>>}}

NormArrays ==
    {FloatArray(TRUE, <<r>>) : r \in NormRows2 \cup NormRows3}
    \cup {FloatArray(FALSE, rows) : rows \in (SeqsUpTo(NormRows2, MaxNormRows)
                                             \cup SeqsUpTo(NormRows3, MaxNormRows)) \ {<<>>}}

SummationOrders == {"left", "right"}

InitNorm ==
    /\ pc = "idle"
    /\ z \in NormArrays
    /\ args = [fn |-> "none", calls |-> 0]
    /\ ret = <<>>

CallNormalizeOrZero ==
    /\ args.calls < MaxCalls
    /\ \E order \in SummationOrders :
          /\ args' = [fn |-> "normalize_or_zero", v0 |-> z, calls |-> args.calls + 1]
          /\ z' = normalize_or_zero_array(z, order)
    /\ pc' = "normalize_or_zero"
    /\ UNCHANGED ret

NextNorm == CallNormalizeOrZero

SpecNorm == InitNorm /\ [][NextNorm]_vars

\* exact non-negative values m * 2^e, for stating what a float result is
Exact(m, e) == [m |-> m, e |-> e]
XSquare(x) == Exact(BMul(x.m, x.m), 2 * x.e)
XMul(a, b) == Exact(BMul(a.m, b.m), a.e + b.e)
XMinExp(a, b) == IF a.e < b.e THEN a.e ELSE b.e
XAdd(a, b) ==
    Exact(BAdd(BShl(a.m, a.e - XMinExp(a, b)), BShl(b.m, b.e - XMinExp(a, b))), XMinExp(a, b))

\* |a - b| <= b * 2^(-bits)
XClose(a, b, bits) ==
    LET am == BShl(a.m, a.e - XMinExp(a, b))
        bm == BShl(b.m, b.e - XMinExp(a, b))
        diff == IF BLeq(am, bm) THEN BSub(bm, am) ELSE BSub(am, bm)
    IN  BLeq(BShl(diff, bits), bm)

RowIsZero(row) == \A i \in 1..Len(row) : IsZero(row[i])

\* |v|^2, exactly
ExactNormSq(v) ==
    IF Len(v) = 2 THEN XAdd(XSquare(v[1]), XSquare(v[2]))
    ELSE XAdd(XAdd(XSquare(v[1]), XSquare(v[2])), XSquare(v[3]))

\* r is v / |v| up to rounding: r[i] has the sign of v[i] and
\* r[i]^2 * |v|^2 = v[i]^2 to within a relative 2^-40
IsRowOverNorm(r, v) ==
    \A i \in 1..Len(v) :
        /\ r[i].kind = "num"
        /\ r[i].sgn = v[i].sgn
        /\ XClose(XMul(XSquare(r[i]), ExactNormSq(v)), XSquare(v[i]), 40)

\* x = y to within a relative 2^-40
CloseFloat(x, y) ==
    /\ x.kind = "num" /\ y.kind = "num"
    /\ x.sgn = y.sgn
    /\ XClose(Exact(x.m, x.e), Exact(y.m, y.e), 40)

\* one application: the shape is kept, a row of zeros is left as it is, every
\* other row becomes the row divided by its norm
ZeroSafeNormalized ==
    /\ z.single = args.v0.single
    /\ Len(z.rows) = Len(args.v0.rows)
    /\ \A i \in 1..Len(z.rows) :
          IF RowIsZero(args.v0.rows[i]) THEN z.rows[i] = args.v0.rows[i]
          ELSE /\ Len(z.rows[i]) = Len(args.v0.rows[i])
               /\ IsRowOverNorm(z.rows[i], args.v0.rows[i])

\* C12 as stated: normalize_or_zero leaves every zero-norm row unchanged,
\* replaces every other row in place by the row divided by its norm, and a
\* second application leaves the array exactly as it was after the first, for a
\* single vector and for a batch alike.
C12_Idempotent ==
    pc = "normalize_or_zero" =>
        /\ ZeroSafeNormalized
        /\ args.calls >= 2 => z = args.v0

\* C12, amended: as above, but a second application leaves zero rows exactly
\* unchanged and every other component unchanged only up to floating-point
\* rounding (a relative 2^-40 at most), not bit for bit.
C12_IdempotentUpToRounding ==
    pc = "normalize_or_zero" =>
        /\ ZeroSafeNormalized
        /\ args.calls >= 2 =>
              \A i \in 1..Len(z.rows) : \A k \in 1..Len(z.rows[i]) :
                  CloseFloat(z.rows[i][k], args.v0.rows[i][k])

\* a batch holding a zero row and a nonzero row has been normalised twice, and
\* the second application changed the last bits of the nonzero row
C12_Witness ==
    /\ pc = "normalize_or_zero"
    /\ args.calls = 2
    /\ ~z.single
    /\ \E i, j \in 1..Len(z.rows) :
          /\ RowIsZero(z.rows[i])
          /\ ~RowIsZero(z.rows[j])
          /\ z.rows[j] # args.v0.rows[j]

-----------------------------------------------------------------------------
(* pixstem.marker_tools: point markers from a grid of peak lists.  A cell of  *)
(* the grid peaks_list is None or a list of peaks [y index, x index]; the     *)
(* indices lie inside the signal axes.                                        *)

MaxPeaks == 2

\* the value the marker arrays are filled with before the peaks are written
Sentinel == -1000

NoPeakList == [is_none |-> TRUE, peaks |-> <<>>]
PeakList(peaks) == [is_none |-> FALSE, peaks |-> peaks]

\* a signal axis and DataAxis.index2value: the axis value at an index
DataAxis(offset, scale) == [offset |-> offset, scale |-> scale]
index2value(axis, index) == axis.offset + axis.scale * index

\* peak_list is not None
IsNotNoneMutant(peak_list) == TRUE
IsNotNone(peak_list) == ~peak_list.is_none

\* np.ndindex(peaks_list.shape[:2]): the k-th grid index, row by row
NdIndex(peaks_list, k) ==
    <<((k - 1) \div Len(peaks_list[1])) + 1, ((k - 1) % Len(peaks_list[1])) + 1>>

GridSize(peaks_list) == Len(peaks_list) * Len(peaks_list[1])

\* lines 28-35: max_peaks after the first n grid indices
RECURSIVE MaxPeaksUpTo(_, _)
MaxPeaksUpTo(peaks_list, n) ==
    IF n = 0 THEN 0
    ELSE LET max_peaks == MaxPeaksUpTo(peaks_list, n - 1)
             peak_list == peaks_list[NdIndex(peaks_list, n)[1]][NdIndex(peaks_list, n)[2]]
         IN  IF IsNotNone(peak_list) /\ Len(peak_list.peaks) > max_peaks
             THEN Len(peak_list.peaks)
             ELSE max_peaks

\* len(None) and enumerate(None) raise TypeError
RaisesTypeError(peaks_list) ==
    \E k \in 1..GridSize(peaks_list) :
        LET peak_list == peaks_list[NdIndex(peaks_list, k)[1]][NdIndex(peaks_list, k)[2]]
        IN  IsNotNone(peak_list) /\ peak_list.is_none

\* lines 36-45: slot i_peak of cell (ix, iy) of marker_x_array (which = 2, from
\* peak[1] on signal_axes[0]) or marker_y_array (which = 1, from peak[0] on
\* signal_axes[1])
MarkerSlot(signal_axes, peaks_list, which, ix, iy, i_peak) ==
    LET peak_list == peaks_list[ix][iy]
    IN  IF IsNotNone(peak_list) /\ i_peak <= Len(peak_list.peaks)
        THEN index2value(signal_axes[3 - which], peak_list.peaks[i_peak][which])
        ELSE Sentinel

\* marker_array[..., i_peak]
MarkerSlice(signal_axes, peaks_list, which, i_peak) ==
    [ix \in 1..Len(peaks_list) |->
        [iy \in 1..Len(peaks_list[1]) |->
            MarkerSlot(signal_axes, peaks_list, which, ix, iy, i_peak)]]

\* hm.point(x, y, color=color, size=size)
point(x, y, color, size) == [x1 |-> x, y1 |-> y, color |-> color, size |-> size]

MarkersReturned(marker_list) == [raised |-> FALSE, marker_list |-> marker_list]
MarkersRaised == [raised |-> TRUE, marker_list |-> <<>>]

_get_4d_marker_list(signal_axes, peaks_list, color, size) ==
    IF RaisesTypeError(peaks_list) THEN MarkersRaised
    ELSE MarkersReturned(
             [i_peak \in 1..MaxPeaksUpTo(peaks_list, GridSize(peaks_list)) |->
                 point(MarkerSlice(signal_axes, peaks_list, 2, i_peak),
                       MarkerSlice(signal_axes, peaks_list, 1, i_peak), color, size)])

\* the peaks, grid shapes and axes tried
PeakIndices == {<<0, 1>>, <<2, 0>>}
CellChoices == {NoPeakList} \cup {PeakList(p) : p \in SeqsUpTo(PeakIndices, MaxPeaks)}
GridShapes == {<<1, 1>>, <<1, 2>>, <<2, 1>>, <<2, 2>>}
PeakGrids == UNION {[1..s[1] -> [1..s[2] -> CellChoices]] : s \in GridShapes}
AxesChoices ==
    {<<DataAxis(0, 1), DataAxis(0, 1)>>, <<DataAxis(-3, 2), DataAxis(5, -1)>>}

\* z is the signal: its signal axes and its metadata
Signal(signal_axes, metadata) == [signal_axes |-> signal_axes, metadata |-> metadata]
NoMarkers == [has_Markers |-> FALSE, nodes_added |-> 0, Markers |-> <<>>]

InitGrid ==
    /\ pc = "idle"
    /\ \E axes \in AxesChoices : z = Signal(axes, NoMarkers)
    /\ args = NoArgs
    /\ ret = <<>>

CallGetMarkerList ==
    /\ pc = "idle"
    /\ \E peaks_list \in PeakGrids :
          /\ args' = [fn |-> "_get_4d_marker_list", peaks_list |-> peaks_list]
          /\ ret' = _get_4d_marker_list(z.signal_axes, peaks_list, "red", 20)
    /\ pc' = "_get_4d_marker_list"
    /\ UNCHANGED z

NextGrid == CallGetMarkerList

SpecGrid == InitGrid /\ [][NextGrid]_vars

GridCells(peaks_list) == (1..Len(peaks_list)) \X (1..Len(peaks_list[1]))

\* the largest list length over the cells that are not None, 0 if there is none
LongestList(peaks_list) ==
    LET lens == {Len(peaks_list[c[1]][c[2]].peaks) :
                    c \in {d \in GridCells(peaks_list) : ~peaks_list[d[1]][d[2]].is_none}}
    IN  IF lens = {} THEN 0 ELSE CHOOSE m \in lens : \A l \in lens : l <= m

\* C14: for any ragged grid (cells None, empty or of differing lengths)
\* _get_4d_marker_list does not raise and returns exactly max_peaks markers,
\* max_peaks the largest list length over the non-None cells (0 if none); the
\* coordinate arrays of every marker have the shape of the grid; in a cell
\* holding k peaks exactly the first k markers carry that cell's peaks, and the
\* other slots, and every slot of a None cell, hold the sentinel -1000.
C14_GridDispatch ==
    pc = "_get_4d_marker_list" =>
        /\ ~ret.raised
        /\ Len(ret.marker_list) = LongestList(args.peaks_list)
        /\ \A i \in 1..Len(ret.marker_list) :
              LET m == ret.marker_list[i]
              IN  /\ DOMAIN m.x1 = 1..Len(args.peaks_list)
                  /\ DOMAIN m.y1 = 1..Len(args.peaks_list)
                  /\ \A c \in GridCells(args.peaks_list) :
                        LET cell == args.peaks_list[c[1]][c[2]]
                        IN  /\ DOMAIN m.x1[c[1]] = 1..Len(args.peaks_list[1])
                            /\ DOMAIN m.y1[c[1]] = 1..Len(args.peaks_list[1])
                            /\ IF ~cell.is_none /\ i <= Len(cell.peaks)
                               THEN /\ m.x1[c[1]][c[2]]
                                        = z.signal_axes[1].offset
                                          + z.signal_axes[1].scale * cell.peaks[i][2]
                                    /\ m.y1[c[1]][c[2]]
                                        = z.signal_axes[2].offset
                                          + z.signal_axes[2].scale * cell.peaks[i][1]
                               ELSE /\ m.x1[c[1]][c[2]] = Sentinel
                                    /\ m.y1[c[1]][c[2]] = Sentinel

\* a 2x2 grid with a None cell, an empty cell, a cell of one peak and a cell of
\* two peaks has been turned into two markers
C14_Witness ==
    /\ pc = "_get_4d_marker_list"
    /\ Len(args.peaks_list) = 2 /\ Len(args.peaks_list[1]) = 2
    /\ \E a, b, c, d \in GridCells(args.peaks_list) :
          /\ args.peaks_list[a[1]][a[2]].is_none
          /\ args.peaks_list[b[1]][b[2]] = PeakList(<<>>)
          /\ Len(args.peaks_list[c[1]][c[2]].peaks) = 1
          /\ Len(args.peaks_list[d[1]][d[2]].peaks) = 2
    /\ ~ret.raised
    /\ Len(ret.marker_list) = 2

-----------------------------------------------------------------------------
(* Permanent markers: _add_permanent_markers_to_signal and                   *)
(* add_peak_array_to_signal_as_markers.  signal.metadata records whether the *)
(* Markers node exists, how many times it was created, and its entries.      *)

MaxMarkerCalls == 2

\* 'marker{0}'.format(imarker)
MarkerNameMutant(imarker) == "marker" \o ToString(imarker + 1)
MarkerName(imarker) == "marker" \o ToString(imarker)

\* hasattr(signal.metadata, 'Markers')
HasMarkers(signal) == signal.metadata.has_Markers

\* signal.metadata.add_node('Markers')
add_node(metadata) ==
    IF metadata.has_Markers THEN metadata
    ELSE [has_Markers |-> TRUE, nodes_added |-> metadata.nodes_added + 1,
          Markers |-> [name \in {} |-> <<>>]]

\* lines 77-79: signal.metadata.Markers[marker_name] = marker, for every marker
SetMarkers(entries, marker_list) ==
    LET names == {MarkerName(i - 1) : i \in 1..Len(marker_list)}
    IN  [name \in DOMAIN entries \cup names |->
            IF name \in names
            THEN marker_list[CHOOSE i \in 1..Len(marker_list) : MarkerName(i - 1) = name]
            ELSE entries[name]]

\* the signal after _add_permanent_markers_to_signal(signal, marker_list)
_add_permanent_markers_to_signal(signal, marker_list) ==
    LET metadata == IF ~HasMarkers(signal) THEN add_node(signal.metadata)
                    ELSE signal.metadata
    IN  Signal(signal.signal_axes,
               [metadata EXCEPT !.Markers = SetMarkers(metadata.Markers, marker_list)])

\* the signal after add_peak_array_to_signal_as_markers(signal, peak_array)
add_peak_array_to_signal_as_markers(signal, peak_array, color, size) ==
    LET got == _get_4d_marker_list(signal.signal_axes, peak_array, color, size)
    IN  IF got.raised THEN signal
        ELSE _add_permanent_markers_to_signal(signal, got.marker_list)

\* markers and peak arrays tried; a signal starts without markers or with three
MarkerPool == {point(<<<<x>>>>, <<<<7>>>>, "blue", 10) : x \in {7, 8}}
MarkerLists == SeqsUpTo(MarkerPool, MaxPeaks)
PeakArrays == {<<<<c>>>> : c \in CellChoices}
OldMarker(i) == point(<<<<i>>>>, <<<<i>>>>, "green", 5)
OldMarkers ==
    [has_Markers |-> TRUE, nodes_added |-> 0,
     Markers |-> [name \in {"marker0", "marker1", "marker2"} |->
                    IF name = "marker0" THEN OldMarker(0)
                    ELSE IF name = "marker1" THEN OldMarker(1) ELSE OldMarker(2)]]

\* args keeps the marker lists of the calls made so far and the metadata the
\* signal started with
InitMarkers ==
    /\ pc = "idle"
    /\ \E metadata \in {NoMarkers, OldMarkers} :
          /\ z = Signal(<<DataAxis(-3, 2), DataAxis(5, -1)>>, metadata)
          /\ args = [fn |-> "none", calls |-> <<>>, before |-> metadata]
    /\ ret = <<>>

CallAddPermanentMarkers ==
    /\ Len(args.calls) < MaxMarkerCalls
    /\ \E marker_list \in MarkerLists :
          /\ z' = _add_permanent_markers_to_signal(z, marker_list)
          /\ args' = [args EXCEPT !.fn = "_add_permanent_markers_to_signal",
                                  !.calls = Append(@, marker_list)]
    /\ pc' = "_add_permanent_markers_to_signal"
    /\ UNCHANGED ret

CallAddPeakArray ==
    /\ Len(args.calls) < MaxMarkerCalls
    /\ \E peak_array \in PeakArrays :
          /\ z' = add_peak_array_to_signal_as_markers(z, peak_array, "red", 20)
          /\ args' = [args EXCEPT
                         !.fn = "add_peak_array_to_signal_as_markers",
                         !.calls = Append(@, _get_4d_marker_list(z.signal_axes, peak_array,
                                                                 "red", 20).marker_list)]
    /\ pc' = "add_peak_array_to_signal_as_markers"
    /\ UNCHANGED ret

NextMarkers == CallAddPermanentMarkers \/ CallAddPeakArray

SpecMarkers == InitMarkers /\ [][NextMarkers]_vars

\* the calls whose marker list has more than i entries
CallsSupplying(i) == {k \in 1..Len(args.calls) : Len(args.calls[k]) > i}

LastOf(S) == CHOOSE k \in S : \A j \in S : j <= k

\* the entry names, written out
EntryNames ==
    <<"marker0", "marker1", "marker2", "marker3", "marker4", "marker5", "marker6", "marker7">>

EntryName(i) == EntryNames[i + 1]

\* C15: after any sequence of calls the Markers node exists and was created at
\* most once, and entry 'marker{i}' holds marker i of the most recent call whose
\* list had more than i entries; entries no call supplied are what they were
\* before the calls.
C15_MarkersKept ==
    Len(args.calls) > 0 =>
        /\ z.metadata.has_Markers
        /\ z.metadata.nodes_added <= 1
        /\ z.metadata.nodes_added = (IF args.before.has_Markers THEN 0 ELSE 1)
        /\ DOMAIN z.metadata.Markers \subseteq {EntryName(i) : i \in 0..(MaxPeaks + 3)}
        /\ \A i \in 0..(MaxPeaks + 3) :
              IF CallsSupplying(i) # {}
              THEN /\ EntryName(i) \in DOMAIN z.metadata.Markers
                   /\ z.metadata.Markers[EntryName(i)]
                          = args.calls[LastOf(CallsSupplying(i))][i + 1]
              ELSE IF EntryName(i) \in DOMAIN args.before.Markers
              THEN /\ EntryName(i) \in DOMAIN z.metadata.Markers
                   /\ z.metadata.Markers[EntryName(i)] = args.before.Markers[EntryName(i)]
              ELSE EntryName(i) \notin DOMAIN z.metadata.Markers

\* a call with two markers was followed by a call with one other marker:
\* marker0 is the later one, marker1 still the earlier one
C15_Witness ==
    /\ Len(args.calls) = 2
    /\ Len(args.calls[1]) = 2
    /\ Len(args.calls[2]) = 1
    /\ args.calls[1][1] # args.calls[2][1]
    /\ ~args.before.has_Markers
    /\ DOMAIN z.metadata.Markers = {"marker0", "marker1"}
    /\ z.metadata.Markers["marker0"] = args.calls[2][1]
    /\ z.metadata.Markers["marker1"] = args.calls[1][2]

====
